---- MODULE Spec2Model ----
(***************************************************************************)
(* The record stores of the Big-Data-Analytics-Lab scripts:                *)
(*   - "BDA Course Assigment 1/crud.py": users in a Redis hash, written as *)
(*     XDM records by class AdobeSDFS and driven by the module functions   *)
(*     create_user .. get_stats;                                           *)
(*   - "lab3/crud.py": users in a MongoDB collection;                      *)
(*   - "BDA Course Assigment 1/main.py": files tracked by the in-memory    *)
(*     dict of class AdobeSDFS and copied into a storage directory.        *)
(* One behaviour of Spec is one run of one script: Init chooses the script *)
(* (client) and every step is one call of one of its operations. One       *)
(* behaviour of SpecConc is two processes running crud.py against the same *)
(* Redis server: every step is one Redis command of one of them.           *)
(*                                                                         *)
(* Python values: a str that the code splits or strips is a sequence of    *)
(* one-character strings ("" is <<>>), any other str is a TLA+ string, a   *)
(* dict is a function on its keys, a returned value is tagged with its     *)
(* Python type (PyNone, PyStr, PyInt, PyBool) or is the dict or list       *)
(* itself; PyRaise stands for a call that an exception ended.              *)
(***************************************************************************)
EXTENDS Integers, Sequences, FiniteSets, TLC

VARIABLES
    client,   \* who drives the run: "redis" (crud.py's functions), "sdfs" (crud.py's
              \* class AdobeSDFS), "mongo" (lab3/crud.py) or "file" (main.py's class)
    clock,    \* the last reading datetime.utcnow() / datetime.now() returned
    store,    \* crud.py: the Redis hash adobe:<namespace>:users, in hgetall order
    coll,     \* lab3/crud.py: the MongoDB collection, in natural (insertion) order
    files,    \* main.py: AdobeSDFS.files, in dict (insertion) order
    disk,     \* main.py: the paths that exist in the storage directory
    call,     \* the operation called last and its arguments
    ret,      \* what that call returned
    exc,      \* what was raised inside that call: "none", "store" (by a method of
              \* the store: a Redis or MongoDB command, a filesystem call, the
              \* IndexError of a name without a word), "post" (by requests.post) or
              \* "input" (by int() in the menu)
    running,  \* the script's process is alive (its menu loop takes a next choice)
    issued,   \* the ids the successful creates of crud.py and main.py have returned
    proc      \* two processes on one Redis server: where each is in its call

vars == <<client, clock, store, coll, files, disk, call, ret, exc, running, issued, proc>>

----------------------------------------------------------------------------
(* Bounds and input sets *)

\* the clock's readings are 0..MaxClock
MaxClock == 1

Emails == {"ann@x.com", "bob@x.com"}
\* "A", "A B", "A B C" and " " as character sequences
Names == {<<"A">>, <<"A", " ", "B">>, <<"A", " ", "B", " ", "C">>, <<" ">>}
Ages == {30, 31}
Phones == {"", "555"}
Addresses == {"", "Elm St"}
\* the values uuid.uuid4().hex[:16] takes, prefixed: nothing keeps two calls apart
AdobeIds == {"adobe_1", "adobe_2"}

----------------------------------------------------------------------------
(* Python values *)

PyNone == [py |-> "None"]
PyStr(s) == [py |-> "str", s |-> s]
PyInt(n) == [py |-> "int", n |-> n]
PyBool(b) == [py |-> "bool", b |-> b]
\* the call ended with an exception that nothing caught
PyRaise == [py |-> "raise"]

\* the dict {} and Python's None where a dict is expected
EmptyDict == <<>>
NoneDict == [none |-> TRUE]

\* str.split(): the maximal runs of non-whitespace characters
RECURSIVE WordLen(_)
WordLen(s) ==
    IF s = <<>> \/ Head(s) = " " THEN 0 ELSE 1 + WordLen(Tail(s))

RECURSIVE split(_)
split(s) ==
    IF s = <<>> THEN <<>>
    ELSE IF Head(s) = " " THEN split(Tail(s))
    ELSE <<SubSeq(s, 1, WordLen(s))>> \o split(SubSeq(s, WordLen(s) + 1, Len(s)))

\* str.strip(): without leading and trailing whitespace
RECURSIVE lstrip(_)
lstrip(s) ==
    IF s # <<>> /\ Head(s) = " " THEN lstrip(Tail(s)) ELSE s

RECURSIVE rstrip(_)
rstrip(s) ==
    IF s # <<>> /\ s[Len(s)] = " " THEN rstrip(SubSeq(s, 1, Len(s) - 1)) ELSE s

strip(s) == rstrip(lstrip(s))

\* Python's None where a str is expected
NoneStr == "<None>"

\* `x or ""`: None and "" are falsy
or_empty(x) == IF x \in {NoneStr, ""} THEN "" ELSE x

\* the readings a call of utcnow()/now() can return after reading t
Readings(t) == t..MaxClock

----------------------------------------------------------------------------
(* crud.py: class AdobeSDFS over the Redis hash *)

\* redis HSET: a new field is appended, an existing field keeps its place
hset(h, id, rec) ==
    IF \E i \in 1..Len(h) : h[i].id = id
    THEN [i \in 1..Len(h) |-> IF h[i].id = id THEN rec ELSE h[i]]
    ELSE Append(h, rec)

RECURSIVE hdel(_, _)
hdel(h, id) ==
    IF h = <<>> THEN <<>>
    ELSE IF Head(h).id = id THEN hdel(Tail(h), id)
    ELSE <<Head(h)>> \o hdel(Tail(h), id)

hlen(h) == Len(h)

\* uuid.uuid4().hex[:16]: any value, whatever the hash holds
_generate_adobe_id == AdobeIds

\* the user_data dict create_user builds
user_data(data) == [data EXCEPT !.phone = or_empty(@), !.address = or_empty(@)]

\* data["name"].split()[0] raises IndexError for a non-empty name without a word
xdm_raises(data) == data.name # <<>> /\ split(data.name) = <<>>

_create_adobe_xdm_record(data, id, t1, t2) ==
    [id |-> id,
     email |-> data.email,
     firstName |-> IF data.name # <<>> THEN split(data.name)[1] ELSE <<>>,
     lastName |-> IF Len(split(data.name)) > 1
                  THEN split(data.name)[Len(split(data.name))] ELSE <<>>,
     age |-> data.age,
     phone |-> data.phone,
     fullAddress |-> data.address,
     createdAt |-> t1,
     updatedAt |-> t2]
\* ("xdm:timestamp", written here and read by no operation, is left out)

\* create that looks for the email first and leaves the hash alone when it is there
create_checks_email(h, adobe_record) ==
    IF \E i \in 1..Len(h) : h[i].email = adobe_record.email
    THEN h
    ELSE hset(h, adobe_record.id, adobe_record)

\* what create does to the hash: HSET of the record under its @id
create(h, adobe_record) == hset(h, adobe_record.id, adobe_record)

\* how requests.post ends inside create: it returns, or it raises and the bare
\* except passes
PostOutcomes == {"none", "post"}

find_all(h) == h

\* first_match with the loop variable used after the loop: without a match the
\* last record scanned is taken
first_match_leaks(h, email) ==
    IF \E i \in 1..Len(h) : h[i].email = email
    THEN CHOOSE i \in 1..Len(h) :
            /\ h[i].email = email
            /\ \A j \in 1..(i - 1) : h[j].email # email
    ELSE Len(h)

\* the index of the first record with the email, 0 when there is none
first_match(h, email) ==
    IF \E i \in 1..Len(h) : h[i].email = email
    THEN CHOOSE i \in 1..Len(h) :
            /\ h[i].email = email
            /\ \A j \in 1..(i - 1) : h[j].email # email
    ELSE 0

\* find_by_email with a scan that starts at the second record
find_by_email_skips_first(h, email) ==
    IF \E i \in 2..Len(h) : h[i].email = email
    THEN h[CHOOSE i \in 2..Len(h) : h[i].email = email]
    ELSE PyNone

find_by_email(h, email) ==
    IF first_match(find_all(h), email) = 0 THEN PyNone
    ELSE find_all(h)[first_match(find_all(h), email)]

\* apply_fields that takes a field the caller left out as given empty
apply_fields_clears(record, update_data) ==
    [record EXCEPT
        !.firstName = IF "name" \in DOMAIN update_data
                      THEN (IF split(update_data.name) # <<>>
                            THEN split(update_data.name)[1] ELSE <<>>)
                      ELSE @,
        !.lastName = IF "name" \in DOMAIN update_data
                     THEN (IF Len(split(update_data.name)) > 1
                           THEN split(update_data.name)[Len(split(update_data.name))]
                           ELSE <<>>)
                     ELSE @,
        !.age = IF "age" \in DOMAIN update_data THEN update_data.age ELSE @,
        !.phone = IF "phone" \in DOMAIN update_data THEN update_data.phone ELSE "",
        !.fullAddress = IF "address" \in DOMAIN update_data
                        THEN update_data.address ELSE ""]

\* the record after the four `if "f" in update_data` steps of update_by_email
apply_fields(record, update_data) ==
    [record EXCEPT
        !.firstName = IF "name" \in DOMAIN update_data
                      THEN (IF split(update_data.name) # <<>>
                            THEN split(update_data.name)[1] ELSE <<>>)
                      ELSE @,
        !.lastName = IF "name" \in DOMAIN update_data
                     THEN (IF Len(split(update_data.name)) > 1
                           THEN split(update_data.name)[Len(split(update_data.name))]
                           ELSE <<>>)
                     ELSE @,
        !.age = IF "age" \in DOMAIN update_data THEN update_data.age ELSE @,
        !.phone = IF "phone" \in DOMAIN update_data THEN update_data.phone ELSE @,
        !.fullAddress = IF "address" \in DOMAIN update_data
                        THEN update_data.address ELSE @]

\* apply_update that stamps the record with its creation time
apply_update_stale(record, update_data, t) ==
    [apply_fields(record, update_data) EXCEPT !.updatedAt = record.createdAt]

\* the record update_by_email writes back: the fields, then xdm:updatedAt
apply_update(record, update_data, t) ==
    [apply_fields(record, update_data) EXCEPT !.updatedAt = t]

update_by_email(h, email, update_data, t) ==
    IF first_match(find_all(h), email) = 0 THEN h
    ELSE hset(h, find_all(h)[first_match(find_all(h), email)].id,
              apply_update(find_all(h)[first_match(find_all(h), email)], update_data, t))

delete_by_email(h, email) ==
    IF first_match(find_all(h), email) = 0 THEN h
    ELSE hdel(h, find_all(h)[first_match(find_all(h), email)].id)

\* the readable dict get_user_by_email prints
user_dict(user, email) ==
    [adobe_id |-> user.id,
     email |-> email,
     name |-> strip(user.firstName \o <<" ">> \o user.lastName),
     age |-> user.age,
     phone |-> user.phone,
     address |-> user.fullAddress,
     created_at |-> user.createdAt,
     updated_at |-> user.updatedAt]

----------------------------------------------------------------------------
(* inputs *)

Ann == "ann@x.com"
Bob == "bob@x.com"

\* create_user(name, email, age) and create_user(name, email, age, phone, address):
\* every name, age, phone and address for one email, the defaults for the other
UserData ==
    [name : Names, email : {Ann}, age : {30}, phone : {NoneStr}, address : {NoneStr}]
    \cup [name : {<<"A">>}, email : {Ann}, age : {30}, phone : {"555"},
          address : {"Elm St"}]
    \cup [name : {<<"A">>}, email : {Bob}, age : {30}, phone : {NoneStr},
          address : {NoneStr}]

\* the dicts the menu builds: the fields that were typed in
UpdateData(email) ==
    {EmptyDict}
    \cup (IF email = Ann
          THEN {("age" :> 31)}
               \cup {("name" :> n) : n \in Names \ {<<"A">>}}
               \cup {("phone" :> p) : p \in Phones \ {""}}
               \cup {("address" :> a) : a \in Addresses \ {""}}
               \cup {("name" :> <<"A", " ", "B">>) @@ ("age" :> 31)}
          ELSE {})

\* what a caller of class AdobeSDFS passes
SdfsData ==
    [name : {<<"A">>}, email : Emails, age : Ages, phone : {""}, address : {""}]

SdfsUpdateData == {EmptyDict} \cup {("age" :> a) : a \in Ages}

\* call.data holds the arguments of a call that wrote to the store
NoCall == [op |-> "none", key |-> "", data |-> EmptyDict]

----------------------------------------------------------------------------
(* crud.py: the module functions, one call each; the Redis command inside a *)
(* call can raise (the server is away), and then nothing is written         *)

\* the value the except clause of a function returns
except_value_always_none(op) == PyNone

except_value(op) ==
    CASE op \in {"create_user", "get_user_by_email"} -> PyNone
      [] op = "get_all_users" -> <<>>
      [] OTHER -> PyInt(0)

\* the `except Exception` clause of the function op: the error is printed and
\* the value returned
excepts(op, key) ==
    /\ exc' = "store"
    /\ ret' = except_value(op)
    /\ call' = [op |-> op, key |-> key, data |-> EmptyDict]
    /\ UNCHANGED <<store, clock, issued>>

\* create_user: the email check, then AdobeSDFS.create; any exception gives None
create_user(data) ==
    /\ client = "redis"
    /\ running
    /\ \/ excepts("create_user", data.email)
       \/ IF find_by_email(store, data.email) # PyNone
          THEN /\ ret' = PyNone
               /\ exc' = "none"
               /\ call' = [op |-> "create_user", key |-> data.email, data |-> EmptyDict]
               /\ UNCHANGED <<store, clock, issued>>
          ELSE IF xdm_raises(user_data(data))
          THEN excepts("create_user", data.email)
          ELSE \E id \in _generate_adobe_id, t1 \in Readings(clock) :
               \E t2 \in Readings(t1), posted \in PostOutcomes :
                  /\ store' = create(store,
                                 _create_adobe_xdm_record(user_data(data), id, t1, t2))
                  /\ clock' = t2
                  /\ issued' = issued \cup {id}
                  /\ ret' = PyStr(id)
                  /\ exc' = posted
                  /\ call' = [op |-> "create_user", key |-> data.email, data |-> data]
    /\ UNCHANGED <<client, coll, files, disk, running, proc>>

\* get_all_users: returns the list of stored records
get_all_users ==
    /\ client = "redis"
    /\ running
    /\ \/ excepts("get_all_users", "")
       \/ /\ call' = [op |-> "get_all_users", key |-> "", data |-> EmptyDict]
          /\ ret' = find_all(store)
          /\ exc' = "none"
          /\ UNCHANGED <<store, clock, issued>>
    /\ UNCHANGED <<client, coll, files, disk, running, proc>>

\* get_user_by_email: returns the stored record, or None
get_user_by_email(email) ==
    /\ client = "redis"
    /\ running
    /\ \/ excepts("get_user_by_email", email)
       \/ /\ call' = [op |-> "get_user_by_email", key |-> email, data |-> EmptyDict]
          /\ ret' = find_by_email(store, email)
          /\ exc' = "none"
          /\ UNCHANGED <<store, clock, issued>>
    /\ UNCHANGED <<client, coll, files, disk, running, proc>>

\* update_user: returns what AdobeSDFS.update_by_email returns
update_user(email, update_data) ==
    /\ client = "redis"
    /\ running
    /\ \/ excepts("update_user", email)
       \/ /\ exc' = "none"
          /\ UNCHANGED issued
          /\ IF first_match(find_all(store), email) = 0
             THEN /\ ret' = PyInt(0)
                  /\ call' = [op |-> "update_user", key |-> email, data |-> EmptyDict]
                  /\ UNCHANGED <<store, clock>>
             ELSE \E t \in Readings(clock) :
                     /\ store' = update_by_email(store, email, update_data, t)
                     /\ clock' = t
                     /\ ret' = PyInt(1)
                     /\ call' = [op |-> "update_user", key |-> email,
                                 data |-> update_data]
    /\ UNCHANGED <<client, coll, files, disk, running, proc>>

\* delete_user: returns what AdobeSDFS.delete_by_email returns
delete_user(email) ==
    /\ client = "redis"
    /\ running
    /\ \/ excepts("delete_user", email)
       \/ /\ call' = [op |-> "delete_user", key |-> email, data |-> EmptyDict]
          /\ ret' = PyInt(IF first_match(find_all(store), email) = 0 THEN 0 ELSE 1)
          /\ store' = delete_by_email(store, email)
          /\ exc' = "none"
          /\ UNCHANGED <<clock, issued>>
    /\ UNCHANGED <<client, coll, files, disk, running, proc>>

\* delete_all_users: returns what AdobeSDFS.delete_all returns
delete_all_users ==
    /\ client = "redis"
    /\ running
    /\ \/ excepts("delete_all_users", "")
       \/ /\ call' = [op |-> "delete_all_users", key |-> "", data |-> EmptyDict]
          /\ ret' = PyInt(hlen(store))
          /\ store' = <<>>
          /\ exc' = "none"
          /\ UNCHANGED <<clock, issued>>
    /\ UNCHANGED <<client, coll, files, disk, running, proc>>

\* get_stats: returns AdobeSDFS.count()
get_stats ==
    /\ client = "redis"
    /\ running
    /\ \/ excepts("get_stats", "")
       \/ /\ call' = [op |-> "get_stats", key |-> "", data |-> EmptyDict]
          /\ ret' = PyInt(hlen(store))
          /\ exc' = "none"
          /\ UNCHANGED <<store, clock, issued>>
    /\ UNCHANGED <<client, coll, files, disk, running, proc>>

----------------------------------------------------------------------------
(* crud.py: the methods of class AdobeSDFS called directly, one call each, *)
(* with the Redis server reachable throughout                              *)

\* AdobeSDFS.create: no look at the records already stored
SdfsCreate(data) ==
    /\ client = "sdfs"
    /\ ~xdm_raises(data)
    /\ \E id \in _generate_adobe_id, t1 \in Readings(clock) :
       \E t2 \in Readings(t1), posted \in PostOutcomes :
          /\ store' = create(store, _create_adobe_xdm_record(data, id, t1, t2))
          /\ clock' = t2
          /\ issued' = issued \cup {id}
          /\ ret' = PyStr(id)
          /\ exc' = posted
    /\ call' = [op |-> "create", key |-> data.email, data |-> data]
    /\ UNCHANGED <<client, coll, files, disk, running, proc>>

SdfsFindByEmail(email) ==
    /\ client = "sdfs"
    /\ call' = [op |-> "find_by_email", key |-> email, data |-> EmptyDict]
    /\ ret' = find_by_email(store, email)
    /\ exc' = "none"
    /\ UNCHANGED <<client, clock, store, coll, files, disk, running, issued, proc>>

SdfsUpdateByEmail(email, update_data) ==
    /\ client = "sdfs"
    /\ exc' = "none"
    /\ IF first_match(find_all(store), email) = 0
       THEN /\ ret' = PyInt(0)
            /\ call' = [op |-> "update_by_email", key |-> email, data |-> EmptyDict]
            /\ UNCHANGED <<store, clock>>
       ELSE \E t \in Readings(clock) :
               /\ store' = update_by_email(store, email, update_data, t)
               /\ clock' = t
               /\ ret' = PyInt(1)
               /\ call' = [op |-> "update_by_email", key |-> email, data |-> update_data]
    /\ UNCHANGED <<client, coll, files, disk, running, issued, proc>>

SdfsDeleteByEmail(email) ==
    /\ client = "sdfs"
    /\ call' = [op |-> "delete_by_email", key |-> email, data |-> EmptyDict]
    /\ ret' = PyInt(IF first_match(find_all(store), email) = 0 THEN 0 ELSE 1)
    /\ store' = delete_by_email(store, email)
    /\ exc' = "none"
    /\ UNCHANGED <<client, clock, coll, files, disk, running, issued, proc>>

SdfsDeleteAll ==
    /\ client = "sdfs"
    /\ call' = [op |-> "delete_all", key |-> "", data |-> EmptyDict]
    /\ ret' = PyInt(hlen(store))
    /\ store' = <<>>
    /\ exc' = "none"
    /\ UNCHANGED <<client, clock, coll, files, disk, running, issued, proc>>

SdfsCount ==
    /\ client = "sdfs"
    /\ call' = [op |-> "count", key |-> "", data |-> EmptyDict]
    /\ ret' = PyInt(hlen(store))
    /\ exc' = "none"
    /\ UNCHANGED <<client, clock, store, coll, files, disk, running, issued, proc>>

----------------------------------------------------------------------------
(* lab3/crud.py: users in a MongoDB collection *)

\* the _id values insert_one assigns: one that no stored document has
ObjectIds == {"oid_1", "oid_2"}

\* create_user(name, email, age): phone and address stay None
MongoData ==
    [name : {<<"A">>}, email : Emails, age : Ages, phone : {NoneStr},
     address : {NoneStr}]

MongoUpdateData ==
    {EmptyDict}
    \cup {("age" :> a) : a \in Ages}
    \cup {("name" :> <<"A", " ", "B">>)}

\* the index of the first document with the email, 0 when there is none
mongo_match(c, email) ==
    IF \E i \in 1..Len(c) : c[i].email = email
    THEN CHOOSE i \in 1..Len(c) :
            /\ c[i].email = email
            /\ \A j \in 1..(i - 1) : c[j].email # email
    ELSE 0

find_one(c, email) ==
    IF mongo_match(c, email) = 0 THEN PyNone ELSE c[mongo_match(c, email)]

\* {"$set": fields} applied to one document
apply_set(doc, fields) ==
    [k \in DOMAIN doc \cup DOMAIN fields |->
        IF k \in DOMAIN fields THEN fields[k] ELSE doc[k]]

\* update_one({"email": email}, {"$set": fields}): the first match is rewritten
update_one(c, email, fields) ==
    IF mongo_match(c, email) = 0 THEN c
    ELSE [c EXCEPT ![mongo_match(c, email)] = apply_set(@, fields)]

\* result.modified_count: 1 when a document matched and the $set changed it
modified_count(c, email, fields) ==
    IF mongo_match(c, email) = 0 THEN 0
    ELSE IF apply_set(c[mongo_match(c, email)], fields) = c[mongo_match(c, email)]
    THEN 0 ELSE 1

\* delete_one({"email": email}): the first match is removed
delete_one(c, email) ==
    IF mongo_match(c, email) = 0 THEN c
    ELSE SubSeq(c, 1, mongo_match(c, email) - 1)
         \o SubSeq(c, mongo_match(c, email) + 1, Len(c))

deleted_count(c, email) == IF mongo_match(c, email) = 0 THEN 0 ELSE 1

count_documents(c) == Len(c)

\* a pymongo call raises (the server is away): no function of lab3/crud.py and
\* no line of its menu loop has a try, so the exception ends the process
propagates(op, key) ==
    /\ exc' = "store"
    /\ ret' = PyRaise
    /\ running' = FALSE
    /\ call' = [op |-> op, key |-> key, data |-> EmptyDict]
    /\ UNCHANGED <<coll, clock>>

\* create_user: insert_one, no look at the documents already stored
mongo_create_user(data) ==
    /\ client = "mongo"
    /\ running
    /\ \/ propagates("create_user", data.email)
       \/ /\ \E oid \in ObjectIds, t1 \in Readings(clock) : \E t2 \in Readings(t1) :
                /\ \A i \in 1..Len(coll) : coll[i]._id # oid
                /\ coll' = Append(coll,
                       [_id |-> oid, name |-> data.name, email |-> data.email,
                        age |-> data.age, phone |-> data.phone,
                        address |-> data.address,
                        created_at |-> t1, updated_at |-> t2])
                /\ clock' = t2
                /\ ret' = PyStr(oid)
          /\ call' = [op |-> "create_user", key |-> data.email, data |-> data]
          /\ exc' = "none"
          /\ UNCHANGED running
    /\ UNCHANGED <<client, store, files, disk, issued, proc>>

\* get_all_users: list(collection.find())
mongo_get_all_users ==
    /\ client = "mongo"
    /\ running
    /\ \/ propagates("get_all_users", "")
       \/ /\ call' = [op |-> "get_all_users", key |-> "", data |-> EmptyDict]
          /\ ret' = coll
          /\ exc' = "none"
          /\ UNCHANGED <<coll, clock, running>>
    /\ UNCHANGED <<client, store, files, disk, issued, proc>>

mongo_get_user_by_email(email) ==
    /\ client = "mongo"
    /\ running
    /\ \/ propagates("get_user_by_email", email)
       \/ /\ call' = [op |-> "get_user_by_email", key |-> email, data |-> EmptyDict]
          /\ ret' = find_one(coll, email)
          /\ exc' = "none"
          /\ UNCHANGED <<coll, clock, running>>
    /\ UNCHANGED <<client, store, files, disk, issued, proc>>

\* update_user: $set of the given fields and of updated_at = datetime.now()
mongo_update_user(email, updated_data) ==
    /\ client = "mongo"
    /\ running
    /\ \/ propagates("update_user", email)
       \/ /\ \E t \in Readings(clock) :
                /\ coll' = update_one(coll, email, ("updated_at" :> t) @@ updated_data)
                /\ clock' = t
                /\ ret' = PyInt(modified_count(coll, email,
                                               ("updated_at" :> t) @@ updated_data))
                /\ call' = [op |-> "update_user", key |-> email,
                            data |-> IF mongo_match(coll, email) = 0 THEN EmptyDict
                                     ELSE updated_data]
          /\ exc' = "none"
          /\ UNCHANGED running
    /\ UNCHANGED <<client, store, files, disk, issued, proc>>

mongo_delete_user(email) ==
    /\ client = "mongo"
    /\ running
    /\ \/ propagates("delete_user", email)
       \/ /\ call' = [op |-> "delete_user", key |-> email, data |-> EmptyDict]
          /\ ret' = PyInt(deleted_count(coll, email))
          /\ coll' = delete_one(coll, email)
          /\ exc' = "none"
          /\ UNCHANGED <<clock, running>>
    /\ UNCHANGED <<client, store, files, disk, issued, proc>>

\* delete_all_users: delete_many({})
mongo_delete_all_users ==
    /\ client = "mongo"
    /\ running
    /\ \/ propagates("delete_all_users", "")
       \/ /\ call' = [op |-> "delete_all_users", key |-> "", data |-> EmptyDict]
          /\ ret' = PyInt(Len(coll))
          /\ coll' = <<>>
          /\ exc' = "none"
          /\ UNCHANGED <<clock, running>>
    /\ UNCHANGED <<client, store, files, disk, issued, proc>>

mongo_get_stats ==
    /\ client = "mongo"
    /\ running
    /\ \/ propagates("get_stats", "")
       \/ /\ call' = [op |-> "get_stats", key |-> "", data |-> EmptyDict]
          /\ ret' = PyInt(count_documents(coll))
          /\ exc' = "none"
          /\ UNCHANGED <<coll, clock, running>>
    /\ UNCHANGED <<client, store, files, disk, issued, proc>>

----------------------------------------------------------------------------
(* main.py: class AdobeSDFS over the storage directory; the functions      *)
(* create_file .. get_stats of the menu pass the results of its methods on *)

\* the paths a caller uploads: the first exists, the second does not
SourcePaths == {"a.txt", "missing.txt"}
source_exists(p) == p = "a.txt"
st_size == ("a.txt" :> 12)

\* create(path) and create(path, {"file_name": .., "description": ..})
MetaData == {NoneDict, ("file_name" :> "report") @@ ("description" :> "")}
MetaUpdates == {("description" :> "draft")}

\* storage_path / f"{file_id}_{source_path.name}"
dest_path(file_id, name) == <<file_id, name>>

\* `metadata or {}`: None and {} are falsy
or_dict(m) == IF m = NoneDict THEN EmptyDict ELSE m

\* self.files[file_id] = info: a new key is appended, an existing key keeps its place
dict_set(d, file_id, info) ==
    IF \E i \in 1..Len(d) : d[i].file_id = file_id
    THEN [i \in 1..Len(d) |-> IF d[i].file_id = file_id THEN info ELSE d[i]]
    ELSE Append(d, info)

\* del self.files[file_id]
RECURSIVE dict_del(_, _)
dict_del(d, file_id) ==
    IF d = <<>> THEN <<>>
    ELSE IF Head(d).file_id = file_id THEN dict_del(Tail(d), file_id)
    ELSE <<Head(d)>> \o dict_del(Tail(d), file_id)

\* file_id in self.files
has_file(d, file_id) == \E i \in 1..Len(d) : d[i].file_id = file_id

\* self.files[file_id] / self.files.get(file_id)
read_by_id(d, file_id) ==
    IF has_file(d, file_id)
    THEN d[CHOOSE i \in 1..Len(d) : d[i].file_id = file_id]
    ELSE PyNone

read_all(d) == d

count(d) == Len(d)

\* the dict create stores
file_info(file_id, file_path, metadata, t) ==
    [file_id |-> file_id,
     original_name |-> file_path,
     stored_path |-> dest_path(file_id, file_path),
     size_bytes |-> st_size[file_path],
     uploaded_at |-> t,
     metadata |-> or_dict(metadata)]

\* merge that keeps nothing of the current metadata
merge_replaces(current_metadata, new_metadata) == new_metadata

\* {**current_metadata, **new_metadata}
merge(current_metadata, new_metadata) ==
    [k \in DOMAIN current_metadata \cup DOMAIN new_metadata |->
        IF k \in DOMAIN new_metadata THEN new_metadata[k] ELSE current_metadata[k]]

\* the dict update_metadata leaves: files[file_id]["metadata"], then ["updated_at"]
updated_info(info, new_metadata, t) ==
    [k \in DOMAIN info \cup {"updated_at"} |->
        IF k = "metadata" THEN merge(info.metadata, new_metadata)
        ELSE IF k = "updated_at" THEN t
        ELSE info[k]]

\* how the filesystem calls of create can end: all succeed; shutil.copy2 raises
\* and leaves nothing or a part of the destination; stat() raises after the copy
CreateOutcomes == {"ok", "copy_failed", "copy_partial", "stat_failed"}

\* create: any exception gives None
FileCreate(file_path, metadata) ==
    /\ client = "file"
    /\ running
    /\ call' = [op |-> "create", key |-> file_path, data |-> EmptyDict]
    /\ IF ~source_exists(file_path)
       THEN /\ ret' = PyNone
            /\ exc' = "store"
            /\ UNCHANGED <<files, disk, clock, issued>>
       ELSE \E file_id \in _generate_adobe_id, outcome \in CreateOutcomes :
               CASE outcome = "ok" ->
                       \E t \in Readings(clock) :
                          /\ disk' = disk \cup {dest_path(file_id, file_path)}
                          /\ files' = dict_set(files, file_id,
                                          file_info(file_id, file_path, metadata, t))
                          /\ clock' = t
                          /\ issued' = issued \cup {file_id}
                          /\ ret' = PyStr(file_id)
                          /\ exc' = "none"
                 [] outcome = "copy_failed" ->
                       /\ ret' = PyNone
                       /\ exc' = "store"
                       /\ UNCHANGED <<files, disk, clock, issued>>
                 [] OTHER ->
                       /\ disk' = disk \cup {dest_path(file_id, file_path)}
                       /\ ret' = PyNone
                       /\ exc' = "store"
                       /\ UNCHANGED <<files, clock, issued>>
    /\ UNCHANGED <<client, store, coll, running, proc>>

FileReadAll ==
    /\ client = "file"
    /\ running
    /\ call' = [op |-> "read_all", key |-> "", data |-> EmptyDict]
    /\ ret' = read_all(files)
    /\ exc' = "none"
    /\ UNCHANGED <<client, clock, store, coll, files, disk, running, issued, proc>>

FileReadById(file_id) ==
    /\ client = "file"
    /\ running
    /\ call' = [op |-> "read_by_id", key |-> file_id, data |-> EmptyDict]
    /\ ret' = read_by_id(files, file_id)
    /\ exc' = "none"
    /\ UNCHANGED <<client, clock, store, coll, files, disk, running, issued, proc>>

\* download: False for an unknown id or a failed copy; writes outside the store
FileDownload(file_id) ==
    /\ client = "file"
    /\ running
    /\ call' = [op |-> "download", key |-> file_id, data |-> EmptyDict]
    /\ IF ~has_file(files, file_id)
       THEN /\ ret' = PyBool(FALSE)
            /\ exc' = "none"
       ELSE \E copied \in BOOLEAN :
               /\ ret' = PyBool(copied /\ read_by_id(files, file_id).stored_path \in disk)
               /\ exc' = IF copied /\ read_by_id(files, file_id).stored_path \in disk
                         THEN "none" ELSE "store"
    /\ UNCHANGED <<client, clock, store, coll, files, disk, running, issued, proc>>

FileUpdateMetadata(file_id, new_metadata) ==
    /\ client = "file"
    /\ running
    /\ exc' = "none"
    /\ IF ~has_file(files, file_id)
       THEN /\ ret' = PyBool(FALSE)
            /\ call' = [op |-> "update_metadata", key |-> file_id, data |-> EmptyDict]
            /\ UNCHANGED <<files, clock>>
       ELSE \E t \in Readings(clock) :
               /\ files' = dict_set(files, file_id,
                               updated_info(read_by_id(files, file_id), new_metadata, t))
               /\ clock' = t
               /\ ret' = PyBool(TRUE)
               /\ call' = [op |-> "update_metadata", key |-> file_id,
                           data |-> new_metadata]
    /\ UNCHANGED <<client, store, coll, disk, running, issued, proc>>

\* what delete(file_id) leaves when unlink raises (unlink_fails) or not
delete_files(d, file_id, unlink_fails) ==
    IF has_file(d, file_id) /\ ~unlink_fails THEN dict_del(d, file_id) ELSE d

\* delete_disk of a delete that forgets the record and leaves its file
delete_disk_keeps(d, dsk, file_id, unlink_fails) == dsk

delete_disk(d, dsk, file_id, unlink_fails) ==
    IF has_file(d, file_id) /\ ~unlink_fails
    THEN dsk \ {read_by_id(d, file_id).stored_path}
    ELSE dsk

\* unlink runs, and can raise, only for a path that exists
can_fail(d, dsk, file_id) ==
    has_file(d, file_id) /\ read_by_id(d, file_id).stored_path \in dsk

FileDelete(file_id) ==
    /\ client = "file"
    /\ running
    /\ call' = [op |-> "delete", key |-> file_id, data |-> EmptyDict]
    /\ \E unlink_fails \in BOOLEAN :
          /\ unlink_fails => can_fail(files, disk, file_id)
          /\ files' = delete_files(files, file_id, unlink_fails)
          /\ disk' = delete_disk(files, disk, file_id, unlink_fails)
          /\ ret' = PyBool(has_file(files, file_id) /\ ~unlink_fails)
          /\ exc' = IF unlink_fails THEN "store" ELSE "none"
    /\ UNCHANGED <<client, clock, store, coll, running, issued, proc>>

\* the ids of d, in order
keys(d) == [i \in 1..Len(d) |-> d[i].file_id]

\* delete(file_id) for each id of list(self.files.keys()); failing: the ids whose
\* unlink raises
RECURSIVE delete_each(_, _, _, _)
delete_each(ids, d, dsk, failing) ==
    IF ids = <<>> THEN <<d, dsk>>
    ELSE delete_each(Tail(ids),
                     delete_files(d, Head(ids), Head(ids) \in failing),
                     delete_disk(d, dsk, Head(ids), Head(ids) \in failing),
                     failing)

\* delete_all: the count is taken before the loop
FileDeleteAll ==
    /\ client = "file"
    /\ running
    /\ call' = [op |-> "delete_all", key |-> "", data |-> EmptyDict]
    /\ ret' = PyInt(Len(files))
    /\ \E failing \in SUBSET {id \in AdobeIds : can_fail(files, disk, id)} :
          /\ files' = delete_each(keys(files), files, disk, failing)[1]
          /\ disk' = delete_each(keys(files), files, disk, failing)[2]
          /\ exc' = IF failing = {} THEN "none" ELSE "store"
    /\ UNCHANGED <<client, clock, store, coll, running, issued, proc>>

FileCount ==
    /\ client = "file"
    /\ running
    /\ call' = [op |-> "count", key |-> "", data |-> EmptyDict]
    /\ ret' = PyInt(count(files))
    /\ exc' = "none"
    /\ UNCHANGED <<client, clock, store, coll, files, disk, running, issued, proc>>

----------------------------------------------------------------------------
(* the menu loops of crud.py, lab3/crud.py and main.py *)

\* choice "0": break
MenuExit ==
    /\ client \in {"redis", "mongo", "file"}
    /\ running
    /\ running' = FALSE
    /\ call' = [op |-> "exit", key |-> "", data |-> EmptyDict]
    /\ ret' = PyNone
    /\ exc' = "none"
    /\ UNCHANGED <<client, clock, store, coll, files, disk, issued, proc>>

\* int(input("Enter age: ")) or int(age) raises ValueError before any function is
\* called: the try around crud.py's loop prints it and the script ends, lab3's
\* loop has no try and the process dies
MenuValueError ==
    /\ client \in {"redis", "mongo"}
    /\ running
    /\ running' = FALSE
    /\ call' = [op |-> "menu", key |-> "", data |-> EmptyDict]
    /\ ret' = IF client = "mongo" THEN PyRaise ELSE PyNone
    /\ exc' = "input"
    /\ UNCHANGED <<client, clock, store, coll, files, disk, issued, proc>>

----------------------------------------------------------------------------
(* two processes running crud.py against one Redis server: a step is one   *)
(* Redis command (HGETALL, HSET, HDEL, HLEN, DEL) of one process, with the *)
(* Python around it                                                        *)

Procs == {"p1", "p2"}

ConcData == [name : {<<"A">>}, email : Emails, age : {30}, phone : {""}, address : {""}]
ConcUpdateData == {("age" :> 31)}

\* a process between two calls: op, email and ret are those of its last call
Idle(op, email, value) ==
    [pc |-> "idle", op |-> op, email |-> email, rec |-> PyNone, ret |-> value]

\* a process inside a call, after its first command: rec is what it holds
Busy(pc, op, email, rec) ==
    [pc |-> pc, op |-> op, email |-> email, rec |-> rec, ret |-> PyNone]

\* create_user, first command: find_by_email's HGETALL and the check
ConcCreateUserCheck(p, data) ==
    /\ client = "conc"
    /\ proc[p].pc = "idle"
    /\ proc' = [proc EXCEPT ![p] =
                  IF find_by_email(store, data.email) # PyNone
                  THEN Idle("create_user", data.email, PyNone)
                  ELSE Busy("create", "create_user", data.email, user_data(data))]
    /\ UNCHANGED <<client, clock, store, coll, files, disk, call, ret, exc, running,
                   issued>>

\* create_user, second command: AdobeSDFS.create's HSET
ConcCreateUserCreate(p) ==
    /\ client = "conc"
    /\ proc[p].pc = "create"
    /\ \E id \in _generate_adobe_id, t1 \in Readings(clock) : \E t2 \in Readings(t1) :
          /\ store' = create(store, _create_adobe_xdm_record(proc[p].rec, id, t1, t2))
          /\ clock' = t2
          /\ issued' = issued \cup {id}
          /\ proc' = [proc EXCEPT ![p] = Idle("create_user", proc[p].email, PyStr(id))]
    /\ UNCHANGED <<client, coll, files, disk, call, ret, exc, running>>

\* update_by_email, first command: find_all's HGETALL, then the loop up to the
\* HSET with the record changed in memory
ConcUpdateRead(p, email, update_data) ==
    /\ client = "conc"
    /\ proc[p].pc = "idle"
    /\ IF first_match(find_all(store), email) = 0
       THEN /\ proc' = [proc EXCEPT ![p] = Idle("update_user", email, PyInt(0))]
            /\ UNCHANGED clock
       ELSE \E t \in Readings(clock) :
               /\ proc' = [proc EXCEPT ![p] =
                             Busy("hset", "update_user", email,
                                  apply_update(find_all(store)[first_match(find_all(store),
                                                                          email)],
                                               update_data, t))]
               /\ clock' = t
    /\ UNCHANGED <<client, store, coll, files, disk, call, ret, exc, running, issued>>

\* update_by_email, second command: HSET of the whole record under its @id
ConcUpdateWrite(p) ==
    /\ client = "conc"
    /\ proc[p].pc = "hset"
    /\ store' = hset(store, proc[p].rec.id, proc[p].rec)
    /\ proc' = [proc EXCEPT ![p] = Idle("update_user", proc[p].email, PyInt(1))]
    /\ UNCHANGED <<client, clock, coll, files, disk, call, ret, exc, running, issued>>

\* delete_by_email, first command: find_all's HGETALL and the loop up to the HDEL
ConcDeleteRead(p, email) ==
    /\ client = "conc"
    /\ proc[p].pc = "idle"
    /\ proc' = [proc EXCEPT ![p] =
                  IF first_match(find_all(store), email) = 0
                  THEN Idle("delete_user", email, PyInt(0))
                  ELSE Busy("hdel", "delete_user", email,
                            find_all(store)[first_match(find_all(store), email)])]
    /\ UNCHANGED <<client, clock, store, coll, files, disk, call, ret, exc, running,
                   issued>>

\* delete_by_email, second command: HDEL of the record's @id
ConcDeleteWrite(p) ==
    /\ client = "conc"
    /\ proc[p].pc = "hdel"
    /\ store' = hdel(store, proc[p].rec.id)
    /\ proc' = [proc EXCEPT ![p] = Idle("delete_user", proc[p].email, PyInt(1))]
    /\ UNCHANGED <<client, clock, coll, files, disk, call, ret, exc, running, issued>>

\* delete_all, first command: HLEN
ConcDeleteAllLen(p) ==
    /\ client = "conc"
    /\ proc[p].pc = "idle"
    /\ proc' = [proc EXCEPT ![p] = Busy("del", "delete_all_users", "", PyInt(hlen(store)))]
    /\ UNCHANGED <<client, clock, store, coll, files, disk, call, ret, exc, running,
                   issued>>

\* delete_all, second command: DEL of the hash; the count read before is returned
ConcDeleteAllDel(p) ==
    /\ client = "conc"
    /\ proc[p].pc = "del"
    /\ store' = <<>>
    /\ proc' = [proc EXCEPT ![p] = Idle("delete_all_users", "", proc[p].rec)]
    /\ UNCHANGED <<client, clock, coll, files, disk, call, ret, exc, running, issued>>

----------------------------------------------------------------------------

\* what one run starts from, whoever drives it
Start ==
    /\ clock = 0
    /\ store = <<>>
    /\ coll = <<>>
    /\ files = <<>>
    /\ disk = {}
    /\ call = NoCall
    /\ ret = PyNone
    /\ exc = "none"
    /\ running = TRUE
    /\ issued = {}
    /\ proc = [p \in Procs |-> Idle("none", "", PyNone)]

Init ==
    /\ client \in {"redis", "sdfs", "mongo", "file"}
    /\ Start

RedisNext ==
    \/ \E data \in UserData : create_user(data)
    \/ get_all_users
    \/ \E email \in Emails : get_user_by_email(email)
    \/ \E email \in Emails : \E update_data \in UpdateData(email) :
          update_user(email, update_data)
    \/ \E email \in Emails : delete_user(email)
    \/ delete_all_users
    \/ get_stats

SdfsNext ==
    \/ \E data \in SdfsData : SdfsCreate(data)
    \/ \E email \in Emails : SdfsFindByEmail(email)
    \/ \E email \in Emails, update_data \in SdfsUpdateData :
          SdfsUpdateByEmail(email, update_data)
    \/ \E email \in Emails : SdfsDeleteByEmail(email)
    \/ SdfsDeleteAll
    \/ SdfsCount

MongoNext ==
    \/ \E data \in MongoData : mongo_create_user(data)
    \/ mongo_get_all_users
    \/ \E email \in Emails : mongo_get_user_by_email(email)
    \/ \E email \in Emails, updated_data \in MongoUpdateData :
          mongo_update_user(email, updated_data)
    \/ \E email \in Emails : mongo_delete_user(email)
    \/ mongo_delete_all_users
    \/ mongo_get_stats

FileNext ==
    \/ \E file_path \in SourcePaths, metadata \in MetaData : FileCreate(file_path, metadata)
    \/ FileReadAll
    \/ \E file_id \in AdobeIds : FileReadById(file_id)
    \/ \E file_id \in AdobeIds : FileDownload(file_id)
    \/ \E file_id \in AdobeIds, new_metadata \in MetaUpdates :
          FileUpdateMetadata(file_id, new_metadata)
    \/ \E file_id \in AdobeIds : FileDelete(file_id)
    \/ FileDeleteAll
    \/ FileCount

MenuNext == MenuExit \/ MenuValueError

Next == RedisNext \/ SdfsNext \/ MongoNext \/ FileNext \/ MenuNext

Spec == Init /\ [][Next]_vars

\* the two processes: each call is taken apart into its Redis commands
InitConc ==
    /\ client = "conc"
    /\ Start

NextConc ==
    \E p \in Procs :
       \/ \E data \in ConcData : ConcCreateUserCheck(p, data)
       \/ ConcCreateUserCreate(p)
       \/ \E email \in Emails, update_data \in ConcUpdateData :
             ConcUpdateRead(p, email, update_data)
       \/ ConcUpdateWrite(p)
       \/ \E email \in Emails : ConcDeleteRead(p, email)
       \/ ConcDeleteWrite(p)
       \/ ConcDeleteAllLen(p)
       \/ ConcDeleteAllDel(p)

SpecConc == InitConc /\ [][NextConc]_vars

----------------------------------------------------------------------------
(* Properties *)

has_email(h, email) == \E i \in 1..Len(h) : h[i].email = email

\* C1: in the Redis user store a create_user whose email already belongs to a
\* live record returns None, creates no record and leaves count() and every
\* existing record unchanged.
C1_DuplicateEmailRejected ==
    [][(client = "redis" /\ call'.op = "create_user" /\ has_email(store, call'.key))
       => (ret' = PyNone /\ store' = store /\ hlen(store') = hlen(store))]_vars

\* a create_user was just rejected for an email that one of two records carries
C1_Witness ==
    /\ client = "redis"
    /\ call.op = "create_user"
    /\ ret = PyNone
    /\ has_email(store, call.key)
    /\ hlen(store) = 2

\* C2 (as claimed): in the MongoDB user store a create_user with the email of a
\* live document is rejected and leaves the collection size unchanged, so after
\* every create_user at most one live document exists per email.
C2_MongoDuplicateRejected ==
    [][(client = "mongo" /\ call'.op = "create_user")
       => /\ has_email(coll, call'.key) => Len(coll') = Len(coll)
          /\ \A i, j \in 1..Len(coll') : coll'[i].email = coll'[j].email => i = j]_vars

\* C3 (as claimed): after a successful create_user of the Redis user store,
\* get_user_by_email(email) returns a record whose rendered name, email, age,
\* phone and address are exactly the values supplied.
C3_CreateReadRoundTrip ==
    (client = "redis" /\ call.op = "create_user" /\ ret # PyNone)
    => /\ find_by_email(store, call.key) # PyNone
       /\ LET shown == user_dict(find_by_email(store, call.key), call.key)
          IN /\ shown.name = call.data.name
             /\ shown.email = call.data.email
             /\ shown.age = call.data.age
             /\ call.data.phone # NoneStr => shown.phone = call.data.phone
             /\ call.data.address # NoneStr => shown.address = call.data.address

\* C4 (as claimed): in the Redis user store, update_user(email, {f: v}) for a
\* live record returns 1 and get_user_by_email(email) then shows field f equal
\* to v, for f among name, age, phone and address.
C4_UpdateReadField ==
    (client = "redis" /\ call.op = "update_user" /\ Cardinality(DOMAIN call.data) = 1)
    => /\ ret = PyInt(1)
       /\ find_by_email(store, call.key) # PyNone
       /\ \A f \in DOMAIN call.data :
             user_dict(find_by_email(store, call.key), call.key)[f] = call.data[f]

\* the step is a successful update of a Redis record / of a MongoDB document
redis_updated ==
    /\ client \in {"redis", "sdfs"}
    /\ call'.op \in {"update_user", "update_by_email"}
    /\ ret' = PyInt(1)

mongo_updated ==
    /\ client = "mongo"
    /\ call'.op = "update_user"
    /\ ret' = PyInt(1)

\* C5 (as claimed): every successful update leaves the record's updated_at
\* strictly greater than before, with a clock that may repeat a reading.
C5_UpdatedAtStrictlyGreater ==
    [][/\ redis_updated =>
            \A j \in 1..Len(store') :
               store'[j].id = find_by_email(store, call'.key).id
               => store'[j].updatedAt > find_by_email(store, call'.key).updatedAt
       /\ mongo_updated =>
            \A j \in 1..Len(coll') :
               coll'[j]._id = find_one(coll, call'.key)._id
               => coll'[j].updated_at > find_one(coll, call'.key).updated_at]_vars

\* C5 (amended): every successful update leaves the record's updated_at equal to
\* the clock reading the update took, which is not less than its value before;
\* over every step the updated_at of a record that stays is never decreased.
C5_UpdatedAtNeverDecreases ==
    [][/\ redis_updated =>
            \A j \in 1..Len(store') :
               store'[j].id = find_by_email(store, call'.key).id
               => /\ store'[j].updatedAt >= find_by_email(store, call'.key).updatedAt
                  /\ store'[j].updatedAt = clock'
       /\ mongo_updated =>
            \A j \in 1..Len(coll') :
               coll'[j]._id = find_one(coll, call'.key)._id
               => /\ coll'[j].updated_at >= find_one(coll, call'.key).updated_at
                  /\ coll'[j].updated_at = clock'
       /\ \A i \in 1..Len(store), j \in 1..Len(store') :
             store[i].id = store'[j].id => store'[j].updatedAt >= store[i].updatedAt
       /\ \A i \in 1..Len(coll), j \in 1..Len(coll') :
             coll[i]._id = coll'[j]._id => coll'[j].updated_at >= coll[i].updated_at]_vars

\* an update has just moved a Redis record's updated_at past its creation time
C5_Witness ==
    /\ client = "redis"
    /\ call.op = "update_user"
    /\ ret = PyInt(1)
    /\ find_by_email(store, call.key).updatedAt > find_by_email(store, call.key).createdAt
    /\ find_by_email(store, call.key).updatedAt = clock

\* C6 (as claimed): every live record of every store carries a creation
\* timestamp and an updated_at timestamp from the moment it is created.
C6_BothTimestamps ==
    /\ \A i \in 1..Len(store) : {"createdAt", "updatedAt"} \subseteq DOMAIN store[i]
    /\ \A i \in 1..Len(coll) : {"created_at", "updated_at"} \subseteq DOMAIN coll[i]
    /\ \A i \in 1..Len(files) : {"uploaded_at", "updated_at"} \subseteq DOMAIN files[i]

\* C7: an update or delete of a key with no live record returns the zero signal
\* (0 for update_by_email and delete_by_email, False for update_metadata and
\* delete) and leaves the records, their contents and the stored files unchanged.
C7_AbsentKeyIsZero ==
    [][/\ (/\ client \in {"redis", "sdfs"}
           /\ call'.op \in {"update_user", "update_by_email",
                            "delete_user", "delete_by_email"}
           /\ ~has_email(store, call'.key))
          => (ret' = PyInt(0) /\ store' = store)
       /\ (/\ client = "file"
           /\ call'.op \in {"update_metadata", "delete"}
           /\ \A i \in 1..Len(files) : files[i].file_id # call'.key)
          => (ret' = PyBool(FALSE) /\ files' = files /\ disk' = disk)]_vars

\* an update_by_email has just returned 0 while the hash holds a record
C7_Witness ==
    /\ client = "sdfs"
    /\ call.op = "update_by_email"
    /\ ret = PyInt(0)
    /\ store # <<>>
    /\ ~has_email(store, call.key)

\* C8 (as claimed): in class AdobeSDFS over Redis a delete_by_email(email) that
\* returns 1 is followed by find_by_email(email) returning None and by count()
\* being 1 less than before.
C8_DeleteThenAbsent ==
    [][(client = "sdfs" /\ call'.op = "delete_by_email" /\ ret' = PyInt(1))
       => (find_by_email(store', call'.key) = PyNone
           /\ hlen(store') = hlen(store) - 1)]_vars

\* C9 (as claimed): in the MongoDB user store a delete_user(email) of an existing
\* email is followed by get_user_by_email(email) returning None and by the count
\* of get_stats being 1 less than before.
C9_MongoDeleteThenAbsent ==
    [][(client = "mongo" /\ call'.op = "delete_user" /\ has_email(coll, call'.key))
       => (find_one(coll', call'.key) = PyNone
           /\ count_documents(coll') = count_documents(coll) - 1)]_vars

\* C10 (as claimed): delete_all of the file store returns the number of records
\* it removed and leaves count() = 0, also when an unlink inside delete fails.
C10_DeleteAllCount ==
    [][(client = "file" /\ call'.op = "delete_all")
       => (ret' = PyInt(count(files) - count(files')) /\ count(files') = 0)]_vars

\* the step is a create of crud.py or main.py that returned an id
created ==
    /\ client \in {"redis", "sdfs", "file"}
    /\ call'.op \in {"create_user", "create"}
    /\ ret' # PyNone

\* C11 (as claimed): every id returned by a successful create differs from every
\* id an earlier create returned, including the ids of records deleted since, so
\* a create never overwrites a live record.
C11_IdsNeverReused ==
    [][created
       => /\ ret'.s \notin issued
          /\ \A i \in 1..Len(store) : store[i].id # ret'.s
          /\ \A i \in 1..Len(files) : files[i].file_id # ret'.s]_vars

\* the ids of s without those for which keep is false, in the order of s
kept_ids(s, keep) ==
    LET stays(k) == k \in keep IN SelectSeq(s, stays)

\* C12 (as claimed): read_all() of the file store returns the live records in the
\* order of their creation: a create puts its record last, an update_metadata
\* moves nothing, a delete or delete_all removes without reordering the rest.
C12_ReadAllInCreationOrder ==
    [][client = "file"
       => IF call'.op = "create" /\ ret' # PyNone
          THEN keys(read_all(files'))
               = kept_ids(keys(read_all(files)), AdobeIds \ {ret'.s}) \o <<ret'.s>>
          ELSE keys(read_all(files'))
               = kept_ids(keys(read_all(files)),
                          {k \in AdobeIds : has_file(files', k)})]_vars

\* the same order holds over every step but a create whose id a live record has
ReadAllOrderUnlessIdRepeats ==
    [][(client = "file" /\ ~(created /\ has_file(files, ret'.s)))
       => IF call'.op = "create" /\ ret' # PyNone
          THEN keys(read_all(files')) = Append(keys(read_all(files)), ret'.s)
          ELSE keys(read_all(files'))
               = kept_ids(keys(read_all(files)),
                          {k \in AdobeIds : has_file(files', k)})]_vars

\* C13 (as claimed): a create of the file store that fails at any step (source
\* missing, copy failing part-way, stat failing after the copy) returns None, adds
\* no record and leaves no destination file in the storage directory.
C13_FailedCreateLeavesNothing ==
    [][(client = "file" /\ call'.op = "create" /\ exc' = "store")
       => (ret' = PyNone /\ files' = files /\ disk' = disk)]_vars

\* C14 (as claimed): in the MongoDB menu application a backend failure raised
\* inside any operation the menu calls does not propagate: the call ends without
\* an uncaught exception and the menu loop goes on to its next iteration.
C14_MongoFailureContinues ==
    [][(client = "mongo" /\ exc' = "store") => (ret' # PyRaise /\ running')]_vars

C16_CheckThenActNotAtomic ==
    [][\A p \in Procs :
          (proc[p].pc = "create" /\ proc'[p].pc = "idle")
          => /\ proc'[p].ret # PyNone
             /\ \E i \in 1..Len(store') :
                   /\ store'[i].id = proc'[p].ret.s
                   /\ store'[i].email = proc[p].email]_vars

\* both processes have returned an id from create_user with one email, and two
\* live records carry that email
C16_Witness ==
    /\ client = "conc"
    /\ \A p \in Procs :
          /\ proc[p].pc = "idle"
          /\ proc[p].op = "create_user"
          /\ proc[p].email = Ann
          /\ proc[p].ret # PyNone
    /\ proc["p1"].ret # proc["p2"].ret
    /\ Len(store) = 2
    /\ \A i \in 1..Len(store) :
          /\ store[i].email = Ann
          /\ \E p \in Procs : proc[p].ret = PyStr(store[i].id)

\* the hash h holds a record under id
live(h, id) == \E i \in 1..Len(h) : h[i].id = id

\* C17 (as claimed): a record id that delete_by_email or delete_all has removed
\* from the Redis hash is never live again, also when the update_by_email of one
\* process interleaves with the delete of another. (An id leaves the hash only by
\* those two, so the removed ids are the issued ids that are not live; the steps
\* of create, which can repeat an id, are C11's and are left out here.)
C17_RemovedNeverLiveAgain ==
    [][\A id \in issued :
          (/\ ~live(store, id)
           /\ \A p \in Procs : proc[p].pc # "create")
          => ~live(store', id)]_vars

\* C18: a successful update_by_email(email, partial) of the Redis store changes
\* one record, which carries the email, and of it only the supplied fields among
\* name, age, phone and address and xdm:updatedAt: its @id, email, xdm:createdAt
\* and unsupplied fields, every other record and the number of records are
\* unchanged.
C18_UpdateFrame ==
    [][redis_updated
       => /\ hlen(store') = hlen(store)
          /\ \E k \in 1..Len(store) :
                /\ store[k].email = call'.key
                /\ \A i \in 1..Len(store) : i # k => store'[i] = store[i]
                /\ store'[k].id = store[k].id
                /\ store'[k].email = store[k].email
                /\ store'[k].createdAt = store[k].createdAt
                /\ "name" \notin DOMAIN call'.data
                   => /\ store'[k].firstName = store[k].firstName
                      /\ store'[k].lastName = store[k].lastName
                /\ "age" \notin DOMAIN call'.data => store'[k].age = store[k].age
                /\ "phone" \notin DOMAIN call'.data => store'[k].phone = store[k].phone
                /\ "address" \notin DOMAIN call'.data
                   => store'[k].fullAddress = store[k].fullAddress]_vars

\* an update_user that supplied only the age has just changed one of two
\* records, whose phone and address were given at its creation
C18_Witness ==
    /\ client = "redis"
    /\ call.op = "update_user"
    /\ ret = PyInt(1)
    /\ DOMAIN call.data = {"age"}
    /\ hlen(store) = 2
    /\ find_by_email(store, call.key).age = call.data.age
    /\ find_by_email(store, call.key).phone = "555"
    /\ find_by_email(store, call.key).fullAddress = "Elm St"
    /\ find_by_email(store, call.key).updatedAt > find_by_email(store, call.key).createdAt

\* C19: a successful update_metadata(file_id, new) of the file store sets the
\* record's metadata to the old metadata overridden key by key by new (a key new
\* lacks keeps its old value) and leaves its file_id, original_name, stored_path,
\* size_bytes and uploaded_at, the stored files and every other record unchanged.
C19_UpdateMetadataFrame ==
    [][(client = "file" /\ call'.op = "update_metadata" /\ ret' = PyBool(TRUE))
       => /\ Len(files') = Len(files)
          /\ disk' = disk
          /\ \E k \in 1..Len(files) :
                /\ files[k].file_id = call'.key
                /\ \A i \in 1..Len(files) : i # k => files'[i] = files[i]
                /\ \A f \in {"file_id", "original_name", "stored_path", "size_bytes",
                             "uploaded_at"} : files'[k][f] = files[k][f]
                /\ DOMAIN files'[k].metadata
                   = DOMAIN files[k].metadata \cup DOMAIN call'.data
                /\ \A key \in DOMAIN call'.data :
                      files'[k].metadata[key] = call'.data[key]
                /\ \A key \in DOMAIN files[k].metadata \ DOMAIN call'.data :
                      files'[k].metadata[key] = files[k].metadata[key]]_vars

\* an update_metadata has just given a new description to one of two records
\* and its file_name is the one given at its creation
C19_Witness ==
    /\ client = "file"
    /\ call.op = "update_metadata"
    /\ ret = PyBool(TRUE)
    /\ Len(files) = 2
    /\ read_by_id(files, call.key).metadata
       = ("file_name" :> "report") @@ ("description" :> "draft")

\* the step is a call of create in the Redis store that got as far as the post
posted_or_created ==
    /\ client \in {"redis", "sdfs"}
    /\ call'.op \in {"create_user", "create"}
    /\ (exc' = "post" \/ (exc' = "none" /\ ret' # PyNone))

\* C20 (as claimed): whether the HTTP post to the ingestion endpoint succeeds or
\* raises, create has stored the record, returns its id, and the record is the
\* one find_by_email returns afterwards and is counted by count().
C20_CreateIsBestEffort ==
    [][posted_or_created
       => /\ ret' # PyNone
          /\ live(store', ret'.s)
          /\ find_by_email(store', call'.key) # PyNone
          /\ find_by_email(store', call'.key).id = ret'.s
          /\ hlen(store') >= 1]_vars

\* whatever the post does, create returns the id under which the hash then holds
\* the record it built, and find_by_email finds a record with the email
CreateStoresWhateverThePost ==
    [][posted_or_created
       => /\ ret' # PyNone
          /\ \E i \in 1..Len(store') :
                /\ store'[i].id = ret'.s
                /\ store'[i].email = call'.key
                /\ store'[i].age = call'.data.age
          /\ find_by_email(store', call'.key) # PyNone
          /\ client = "redis" => find_by_email(store', call'.key).id = ret'.s
          /\ hlen(store') >= 1]_vars

\* C21: in the file store, over every sequence of create, download,
\* update_metadata, delete and delete_all in which filesystem calls may fail,
\* the stored_path of every tracked record names a file of the storage
\* directory, and after a delete that returned True neither the record nor its
\* stored file remains.
C21_TrackedFilesExist ==
    /\ [](\A i \in 1..Len(files) : files[i].stored_path \in disk)
    /\ [][(client = "file" /\ call'.op = "delete" /\ ret' = PyBool(TRUE))
          => /\ ~has_file(files', call'.key)
             /\ \A i \in 1..Len(files) :
                   files[i].file_id = call'.key => files[i].stored_path \notin disk']_vars

\* a delete has just returned True and its stored file is gone, while the other
\* record is still tracked and its file is the only one left in the directory
C21_Witness ==
    /\ client = "file"
    /\ call.op = "delete"
    /\ ret = PyBool(TRUE)
    /\ dest_path(call.key, "a.txt") \notin disk
    /\ Len(files) = 1
    /\ files[1].stored_path \in disk
    /\ Cardinality(disk) = 1

\* count() of the class in use
records_count == IF client = "file" THEN count(files) ELSE hlen(store)

\* a delete of one record that reported success
deleted_one ==
    \/ client = "sdfs" /\ call'.op = "delete_by_email" /\ ret' = PyInt(1)
    \/ client = "file" /\ call'.op = "delete" /\ ret' = PyBool(TRUE)

\* a create that returned an id no live record has
created_fresh ==
    /\ created
    /\ \A i \in 1..Len(store) : store[i].id # ret'.s
    /\ \A i \in 1..Len(files) : files[i].file_id # ret'.s

\* count() after a step as the claim has it
count_as_claimed ==
    CASE created -> records_count + 1
      [] deleted_one -> records_count - 1
      [] call'.op = "delete_all" -> 0
      [] OTHER -> records_count

\* count() after a step, a repeated id and a failing unlink taken into account
count_as_coded ==
    CASE created_fresh -> records_count + 1
      [] created -> records_count
      [] deleted_one -> records_count - 1
      [] call'.op = "delete_all" /\ exc' = "none" -> 0
      [] call'.op = "delete_all" -> records_count - Cardinality(disk \ disk')
      [] OTHER -> records_count

\* C22 (as claimed): in both AdobeSDFS classes count() equals the number of
\* records the read-all operation returns, and every operation changes it by +1
\* when it is a create that returned an id, by -1 when it is a delete that
\* reported success, to 0 when it is delete_all, and not at all otherwise.
C22_CountSteps ==
    /\ [](hlen(store) = Len(find_all(store)) /\ count(files) = Len(read_all(files)))
    /\ [][(client \in {"sdfs", "file"}) => records_count' = count_as_claimed]_vars

\* what holds instead: the steps of C22 for a create whose id no live record
\* has and for a delete_all none of whose unlink calls raised
CountStepsUnlessIdRepeatsOrUnlinkFails ==
    /\ [](hlen(store) = Len(find_all(store)) /\ count(files) = Len(read_all(files)))
    /\ [][(client \in {"sdfs", "file"}) => records_count' = count_as_coded]_vars

====
